---- MODULE Spec2Model ----
(***************************************************************************)
(* securepass (src/src/lib.rs): password generation, balancing and         *)
(* strength evaluation.                                                    *)
(*                                                                         *)
(* A string is a sequence of characters; a character is a one-character    *)
(* TLA+ string.  str::len() counts bytes, chars().nth() counts characters: *)
(* both are modelled (ByteLen, len, nth), so a multi-byte phrase character *)
(* behaves as in the code.  thread_rng is a nondeterministic choice; the   *)
(* outcomes explored are a bounded sample of each range (SampleChars,      *)
(* IndexSamples, DrawPeriod).                                              *)
(***************************************************************************)
EXTENDS Integers, Sequences, FiniteSets, TLC

VARIABLES
    options,    \* the PasswordOptions generate_password is called on
    pc,         \* position in generate_password / balance_password / check_password_strength
    charset,    \* generate_password's local `charset`
    password,   \* the candidate / the argument of the function running
    verdict,    \* balance_password's local `password_str`, or the evaluator's return value
    result,     \* "none", "ok", "err" (Err returned) or "panic" (the thread aborted)
    events      \* which of "charset", "rng", "balance" have run in this call

vars == <<options, pc, charset, password, verdict, result, events>>

----------------------------------------------------------------------------
(* Program constants                                                       *)

UPPERCASE_CHARSET ==
    <<"A","B","C","D","E","F","G","H","I","J","K","L","M",
      "N","O","P","Q","R","S","T","U","V","W","X","Y","Z">>

LOWERCASE_CHARSET ==
    <<"a","b","c","d","e","f","g","h","i","j","k","l","m",
      "n","o","p","q","r","s","t","u","v","w","x","y","z">>

NUMBERS == <<"0","1","2","3","4","5","6","7","8","9">>

SPECIAL_CHARSET ==
    <<"!","@","#","$","%","^","&","*","?","(",")","{","}","[","]","<",">","-","_","=","+">>

MinLength == 10

DefaultLength == 13

None == [tag |-> "None"]

Some(x) == [tag |-> "Some", value |-> x]

DefaultOptions ==
    [length |-> DefaultLength,
     include_special_chars |-> TRUE,
     include_uppercase |-> TRUE,
     include_numbers |-> TRUE,
     with_balancing |-> TRUE,
     phrase |-> None]

----------------------------------------------------------------------------
(* Bounds of the exploration                                               *)

\* gen_range(0..password.len()) is explored at this many evenly spaced positions
IndexSamples == 2

\* a call of generate_random_password makes this many free draws, then repeats them
DrawPeriod == 2

\* longest password handed to check_password_strength in StrengthSpec
MaxStrengthLen == 19

\* the characters a draw from a charset is explored at: the first of each class,
\* and the non-ASCII letter a phrase may hold
SampleChars == {"a", "A", "0", "!", "é"}

\* dictionary.txt is not part of the sources: a stand-in word list
Dictionary ==
    << <<"p","a","s","s","w","o","r","d">>, <<"a","a","a","a">> >>

----------------------------------------------------------------------------
(* Strings                                                                 *)

Range(s) == {s[i] : i \in 1..Len(s)}

Min(a, b) == IF a < b THEN a ELSE b

\* UTF-8 width of a character
ByteLen(c) == IF c = "é" THEN 2 ELSE 1

\* str::len(): the length in bytes
len(s) ==
    LET bytes[i \in 0..Len(s)] == IF i = 0 THEN 0 ELSE bytes[i - 1] + ByteLen(s[i])
    IN  bytes[Len(s)]

\* chars().nth(index): the index-th character, or "None" past the last one
nth(s, index) == IF index < Len(s) THEN s[index + 1] ELSE "None"

\* char::is_whitespace
is_whitespace(c) == c \in {" ", "\t"}

\* char::is_lowercase (Unicode), char::is_uppercase, char::is_digit(10)
is_lowercase(c) == c \in Range(LOWERCASE_CHARSET) \cup {"é"}

is_uppercase(c) == c \in Range(UPPERCASE_CHARSET)

is_digit(c) == c \in Range(NUMBERS)

\* str::contains(&str): `word` occurs in `s` as a contiguous substring
contains(s, word) ==
    \E i \in 0..(Len(s) - Len(word)) : SubSeq(s, i + 1, i + Len(word)) = word

remove_whitespace(input) == SelectSeq(input, LAMBDA c : ~is_whitespace(c))

----------------------------------------------------------------------------
(* The random source                                                       *)

\* outcomes of gen_range(0..n) when n is a password's length
gen_range_index(n) == {(j * n) \div IndexSamples : j \in 0..(IndexSamples - 1)}

\* outcomes of gen_range(0..set.len()) when the index selects a character of `set`
gen_range_char(set) ==
    {i \in 0..(len(set) - 1) : nth(set, i) = "None" \/ nth(set, i) \in SampleChars}

----------------------------------------------------------------------------
(* Strength evaluator                                                      *)

check_password_specification(pw) ==
    [has_lowercase |-> \E i \in 1..Len(pw) : is_lowercase(pw[i]),
     has_uppercase |-> \E i \in 1..Len(pw) : is_uppercase(pw[i]),
     has_number    |-> \E i \in 1..Len(pw) : is_digit(pw[i]),
     has_special   |-> \E i \in 1..Len(pw) : pw[i] \in Range(SPECIAL_CHARSET)]

\* f64::log2 of an alphabet size, in millionths of a bit, rounded down.  The
\* sizes are the sums of the class sizes 26, 26, 10 and 21.
Log2Micro(r) ==
    CASE r = 10 -> 3321928
      [] r = 21 -> 4392317
      [] r = 26 -> 4700439
      [] r = 31 -> 4954196
      [] r = 36 -> 5169925
      [] r = 47 -> 5554588
      [] r = 52 -> 5700439
      [] r = 57 -> 5832890
      [] r = 62 -> 5954196
      [] r = 73 -> 6189824
      [] r = 83 -> 6375039

\* l * r.log2() in millionths of a bit; r = 0 gives l * -inf = -inf, any
\* negative number here (l = 0 never reaches it from check_password_strength)
calculate_entropy(pw) ==
    LET l == len(pw)
        spec == check_password_specification(pw)
        r == (IF spec.has_lowercase THEN Len(LOWERCASE_CHARSET) ELSE 0)
           + (IF spec.has_uppercase THEN Len(UPPERCASE_CHARSET) ELSE 0)
           + (IF spec.has_number THEN Len(NUMBERS) ELSE 0)
           + (IF spec.has_special THEN Len(SPECIAL_CHARSET) ELSE 0)
    IN  IF r = 0 THEN -1 ELSE l * Log2Micro(r)

check_has_common_words(pw) ==
    \E w \in 1..Len(Dictionary) : contains(pw, Dictionary[w])

\* the `match entropy` of check_password_strength; the ranges are closed float
\* ranges, so a value strictly between two of them takes the last arm
EntropyScore_Shifted(entropy) ==
    IF entropy >= 40000000 /\ entropy <= 59900000 THEN 0
    ELSE IF entropy >= 60000000 /\ entropy <= 81900000 THEN 1
    ELSE 3

EntropyScore(entropy) ==
    IF entropy >= 40000000 /\ entropy <= 59900000 THEN 0
    ELSE IF entropy >= 60000000 /\ entropy <= 81900000 THEN 1
    ELSE IF entropy >= 82000000 /\ entropy <= 99900000 THEN 2
    ELSE 3

\* the dictionary malus
ApplyMalus_Double(score, has_common_words, entropy) ==
    IF has_common_words /\ entropy < 85000000 THEN score - 2 ELSE score

ApplyMalus(score, has_common_words, entropy) ==
    IF has_common_words /\ entropy < 85000000 THEN score - 1 ELSE score

\* the `match score` of check_password_strength
ScoreVerdict(score) ==
    IF score \in 2..3 THEN "Strong"
    ELSE IF score = 1 THEN "Medium"
    ELSE "Weak"

check_password_strength(pw) ==
    IF pw = <<>> THEN "Err"
    ELSE LET entropy == calculate_entropy(pw)
         IN  IF entropy < 40000000 THEN "Weak"
             ELSE ScoreVerdict(ApplyMalus(EntropyScore(entropy),
                                          check_has_common_words(pw), entropy))

\* Weak < Medium < Strong
Rank(v) == CASE v = "Weak" -> 0 [] v = "Medium" -> 1 [] v = "Strong" -> 2

----------------------------------------------------------------------------
(* Generation                                                              *)

\* `length < 10` of generate_password
TooShort_OffByOne(length) == length < MinLength - 1

TooShort(length) == length < MinLength

generate_charset(opts) ==
    IF opts.phrase.tag = "Some" THEN remove_whitespace(opts.phrase.value)
    ELSE LOWERCASE_CHARSET
         \o (IF opts.include_uppercase THEN UPPERCASE_CHARSET ELSE <<>>)
         \o (IF opts.include_numbers THEN NUMBERS ELSE <<>>)
         \o (IF opts.include_special_chars THEN SPECIAL_CHARSET ELSE <<>>)

Panic == [tag |-> "Panic"]

Returned(s) == [tag |-> "Returned", value |-> s]

\* The outcomes of generate_random_password(set, length): the strings it can
\* return, and Panic where gen_range is handed the empty range 0..0 or
\* chars().nth(index) is None (index counts bytes, nth counts characters).
generate_random_password(set, length) ==
    IF length = 0 THEN {Returned(<<>>)}
    ELSE IF len(set) = 0 THEN {Panic}
    ELSE LET period == Min(DrawPeriod, length)
         IN  {IF \E k \in 1..period : nth(set, d[k]) = "None"
                 THEN Panic
                 ELSE Returned([i \in 1..length |-> nth(set, d[((i - 1) % period) + 1])])
              : d \in [1..period -> gen_range_char(set)]}

\* `self.phrase.is_none() && self.with_balancing` of generate_password
ShouldBalance_IgnorePhrase(opts) == opts.with_balancing

ShouldBalance(opts) == opts.phrase.tag = "None" /\ opts.with_balancing

\* the `break` condition of balance_password's loop
Balanced_IgnoreStrength(password_str, spec) ==
    spec.has_lowercase /\ spec.has_number /\ spec.has_special /\ spec.has_uppercase

Balanced(password_str, spec) ==
    /\ password_str = "Strong"
    /\ spec.has_lowercase /\ spec.has_number /\ spec.has_special /\ spec.has_uppercase

\* The outcomes of replace_char(password, set, rng): one character of the
\* password replaced by one character of `set`.  The passwords balanced here
\* are ASCII, so the byte range index..=index is the index-th character.
replace_char(pw, set) ==
    {[pw EXCEPT ![index + 1] = nth(set, c)] :
        index \in gen_range_index(len(pw)), c \in gen_range_char(set)}

----------------------------------------------------------------------------
(* Inputs                                                                  *)

\* requested lengths: one below the minimum, the minimum (which the balancer
\* pads), the default, and one above it (where the entropy passes the margin
\* under which the dictionary malus applies)
Lengths == {MinLength - 1, MinLength, DefaultLength, DefaultLength + 1}

Phrases ==
    {None, Some(<<>>), Some(<<" ">>), Some(<<"a">>), Some(<<"a"," ","A">>), Some(<<"é">>)}

OptionsInputs ==
    [length : Lengths,
     include_special_chars : BOOLEAN,
     include_uppercase : BOOLEAN,
     include_numbers : BOOLEAN,
     with_balancing : BOOLEAN,
     phrase : Phrases]

\* starting candidates handed to balance_password directly (it is pub): the
\* one of tests::test_balance_password, one of the default length whose only
\* uppercase letter is its first character, and a longer one
Candidates ==
    { <<"q","w","e","r","t","y","u","i","o","p">>,
      <<"A","b","c","d","e","f","g","h","i","j","k","7","m">>,
      <<"a","b","c","d","e","f","g","h","i","j","k","l","9","M">> }

\* characters the evaluator's inputs are filled with: one per class, a
\* character of no class, and a two-byte lowercase letter
FillChars == <<"k", "Q", "7", "#", " ", "é">>

StrengthInput(word, fill, length) ==
    [i \in 1..length |->
        IF i <= Len(word) THEN word[i]
        ELSE fill[((i - Len(word) - 1) % Len(fill)) + 1]]

StrengthInputs ==
    {StrengthInput(word, SelectSeq(FillChars, LAMBDA c : c \in S), length) :
        word \in {<<>>} \cup Range(Dictionary),
        S \in (SUBSET Range(FillChars)) \ {{}},
        length \in 0..MaxStrengthLen}

----------------------------------------------------------------------------
(* generate_password                                                       *)

Init ==
    /\ options \in OptionsInputs
    /\ pc = "generate_password"
    /\ charset = <<>>
    /\ password = <<>>
    /\ verdict = "none"
    /\ result = "none"
    /\ events = {}

\* generate_password up to the call of balance_password (lines 72-81), and
\* its return where the balancer is not called (line 85)
GeneratePassword ==
    /\ pc = "generate_password"
    /\ IF TooShort(options.length)
       THEN /\ result' = "err"
            /\ pc' = "done"
            /\ UNCHANGED <<charset, password, events>>
       ELSE /\ charset' = generate_charset(options)
            /\ events' = events \cup {"charset", "rng"}
            /\ \E out \in generate_random_password(charset', options.length) :
                  IF out.tag = "Panic"
                  THEN /\ result' = "panic"
                       /\ pc' = "done"
                       /\ UNCHANGED password
                  ELSE /\ password' = out.value
                       /\ IF ShouldBalance(options)
                          THEN pc' = "balance_password" /\ UNCHANGED result
                          ELSE pc' = "done" /\ result' = "ok"
    /\ UNCHANGED <<options, verdict>>

\* balance_password before its loop (lines 144-155): the padding
BalancePad ==
    /\ pc = "balance_password"
    /\ events' = events \cup {"balance"}
    /\ IF len(password) < DefaultOptions.length
       THEN \E str_to_add \in generate_random_password(
                   generate_charset(DefaultOptions),
                   DefaultOptions.length - len(password)) :
               \* the default charset is ASCII: the call returns
               password' = password \o str_to_add.value
       ELSE UNCHANGED password
    /\ pc' = "loop"
    /\ UNCHANGED <<options, charset, verdict, result>>

\* the head of the loop (lines 157-168), and the return after `break`
BalanceCheck ==
    /\ pc = "loop"
    /\ verdict' = check_password_strength(password)
    /\ IF Balanced(verdict', check_password_specification(password))
       THEN pc' = "done" /\ result' = "ok"
       ELSE pc' = "replace_lowercase" /\ UNCHANGED result
    /\ UNCHANGED <<options, charset, password, events>>

Replace(at, set, next) ==
    /\ pc = at
    /\ password' \in replace_char(password, set)
    /\ pc' = next
    /\ UNCHANGED <<options, charset, verdict, result, events>>

\* lines 170-173
ReplaceLowercase == Replace("replace_lowercase", LOWERCASE_CHARSET, "replace_uppercase")

ReplaceUppercase == Replace("replace_uppercase", UPPERCASE_CHARSET, "replace_numbers")

ReplaceNumbers == Replace("replace_numbers", NUMBERS, "replace_special")

ReplaceSpecial == Replace("replace_special", SPECIAL_CHARSET, "loop")

Balance ==
    \/ BalancePad
    \/ BalanceCheck
    \/ ReplaceLowercase
    \/ ReplaceUppercase
    \/ ReplaceNumbers
    \/ ReplaceSpecial

Next ==
    \/ GeneratePassword
    \/ Balance

Spec == Init /\ [][Next]_vars

----------------------------------------------------------------------------
(* balance_password called on a candidate of the caller's                  *)

BalanceInit ==
    /\ options = DefaultOptions
    /\ pc = "balance_password"
    /\ charset = <<>>
    /\ password \in Candidates
    /\ verdict = "none"
    /\ result = "none"
    /\ events = {}

BalanceSpec == BalanceInit /\ [][Balance]_vars

\* the loop is sequential code: while it has a next statement, it runs it
FairBalanceSpec == BalanceSpec /\ WF_vars(Balance)

----------------------------------------------------------------------------
(* check_password_strength called on a password of the caller's            *)

StrengthInit ==
    /\ options = DefaultOptions
    /\ pc = "check_password_strength"
    /\ charset = <<>>
    /\ password \in StrengthInputs
    /\ verdict = "none"
    /\ result = "none"
    /\ events = {}

CheckPasswordStrength ==
    /\ pc = "check_password_strength"
    /\ verdict' = check_password_strength(password)
    /\ result' = IF verdict' = "Err" THEN "err" ELSE "ok"
    /\ pc' = "done"
    /\ UNCHANGED <<options, charset, password, events>>

StrengthSpec == StrengthInit /\ [][CheckPasswordStrength]_vars

----------------------------------------------------------------------------
(* Properties                                                              *)

Returned_Ok == pc = "done" /\ result = "ok"

HasNonWhitespace(phrase) ==
    phrase.tag = "Some" /\ \E i \in 1..Len(phrase.value) : ~is_whitespace(phrase.value[i])

AllOn(opts) ==
    opts.include_uppercase /\ opts.include_numbers /\ opts.include_special_chars

HasAllFourClasses(pw) ==
    /\ Range(pw) \cap Range(LOWERCASE_CHARSET) # {}
    /\ Range(pw) \cap Range(UPPERCASE_CHARSET) # {}
    /\ Range(pw) \cap Range(NUMBERS) # {}
    /\ Range(pw) \cap Range(SPECIAL_CHARSET) # {}

\* the character classes present in a candidate
Classes(pw) ==
    LET spec == check_password_specification(pw)
    IN  {c \in {"lowercase", "uppercase", "number", "special"} :
            \/ c = "lowercase" /\ spec.has_lowercase
            \/ c = "uppercase" /\ spec.has_uppercase
            \/ c = "number" /\ spec.has_number
            \/ c = "special" /\ spec.has_special}

ReplaceSteps ==
    {"replace_lowercase", "replace_uppercase", "replace_numbers", "replace_special"}

IsAscii(phrase) ==
    phrase.tag = "Some" /\ \A i \in 1..Len(phrase.value) : ByteLen(phrase.value[i]) = 1

\* C1: with length >= 10 and a phrase that is absent or has a non-whitespace
\* character, generate_password returns Ok with a password of exactly
\* options.length characters.  Stated here of the ASCII phrases alone: a
\* multi-byte phrase breaks it too, by the panic of chars().nth(index).unwrap().
C1_ExactLength ==
    (/\ pc = "done"
     /\ options.length >= MinLength
     /\ options.phrase = None
        \/ (HasNonWhitespace(options.phrase) /\ IsAscii(options.phrase)))
    => (result = "ok" /\ Len(password) = options.length)

\* C2: with every class enabled, balancing on, no phrase and length >= 10, a
\* returned password holds a lowercase letter, an uppercase letter, a digit and
\* a special character, and check_password_strength on it yields Strong.
C2_BalancedStrong ==
    (/\ Returned_Ok
     /\ AllOn(options) /\ options.with_balancing /\ options.phrase = None
     /\ options.length >= MinLength)
    => (HasAllFourClasses(password) /\ check_password_strength(password) = "Strong")

\* the balancer returned a password of the default length (not padded), which
\* it had to repair: the generator's draws held at most DrawPeriod classes
C2_Witness ==
    /\ Returned_Ok
    /\ AllOn(options) /\ options.with_balancing /\ options.phrase = None
    /\ options.length = DefaultLength
    /\ "balance" \in events
    /\ verdict = "Strong"

\* C3: whatever the random choices, balance_password's loop exits: no
\* execution repeats passes forever.
C3_BalancerTerminates == <>(pc = "done")

\* C4: without a phrase and with length >= 10, every character of the returned
\* password belongs to the charset built from the config.
C4_OnlyCharsetChars ==
    (Returned_Ok /\ options.phrase = None /\ options.length >= MinLength)
    => Range(password) \subseteq Range(generate_charset(options))

\* C5: with length < 10, generate_password returns the too-short error and no
\* password, before it builds a charset, draws a character or runs the balancer.
C5_TooShortRejected ==
    options.length < MinLength
    => \/ pc = "generate_password" /\ result = "none"
       \/ /\ pc = "done" /\ result = "err"
          /\ password = <<>> /\ charset = <<>> /\ events = {}

C5_Witness == options.length < MinLength /\ pc = "done" /\ result = "err"

\* C6: with a phrase and length >= 10 the balancer is not run, whatever the
\* flags, and every character of a returned password is a non-whitespace
\* character of the phrase; a phrase whose only character is c returns c
\* repeated length times.
C6_PhraseOnly ==
    (options.phrase.tag = "Some" /\ options.length >= MinLength)
    => /\ "balance" \notin events
       /\ pc \in {"generate_password", "done"}
       /\ Returned_Ok =>
            /\ Range(password) \subseteq
                 {c \in Range(options.phrase.value) : ~is_whitespace(c)}
            /\ \A c \in Range(options.phrase.value) :
                 Range(remove_whitespace(options.phrase.value)) = {c}
                 => password = [i \in 1..options.length |-> c]

C6_Witness ==
    /\ Returned_Ok
    /\ options.phrase = Some(<<"a">>)
    /\ options.with_balancing /\ AllOn(options)
    /\ password = [i \in 1..options.length |-> "a"]

\* C7: the charset handed to the random generator is never empty:
\* generate_password builds a charset of at least one character or returns an
\* error, and never samples on an empty charset.
C7_CharsetNonEmpty ==
    /\ "rng" \in events => Len(charset) > 0
    /\ pc = "done" => (result = "err" \/ Len(charset) > 0)

\* C8: of two passwords of the same length L >= 12, one with all four classes
\* and one of lowercase letters only, the first's verdict is at least the
\* second's, whichever of them contain dictionary words.
C8_ClassCoverageMonotone ==
    (/\ Returned_Ok
     /\ len(password) >= 12
     /\ Classes(password) = {"lowercase", "uppercase", "number", "special"})
    => \A other \in StrengthInputs :
          (len(other) = len(password) /\ Classes(other) = {"lowercase"})
          => Rank(verdict) >= Rank(check_password_strength(other))

\* the tight case: a four-class password demoted to Medium by a dictionary
\* word, beside lowercase passwords of its length that are Medium
C8_Witness ==
    /\ Returned_Ok
    /\ len(password) >= 12
    /\ Classes(password) = {"lowercase", "uppercase", "number", "special"}
    /\ check_has_common_words(password)
    /\ verdict = "Medium"
    /\ \E other \in StrengthInputs :
          /\ len(other) = len(password) /\ Classes(other) = {"lowercase"}
          /\ ~check_has_common_words(other)
          /\ check_password_strength(other) = "Medium"

\* C9: a password that contains a dictionary word, whose entropy is below 85
\* and whose entropy band alone gives Medium or Strong, gets the verdict one
\* tier below that band's.
C9_DictionaryDemotes ==
    LET entropy == calculate_entropy(password)
        band == ScoreVerdict(EntropyScore(entropy))
    IN  (/\ Returned_Ok
         /\ check_has_common_words(password)
         /\ entropy >= 40000000 /\ entropy < 85000000
         /\ band \in {"Medium", "Strong"})
        => Rank(verdict) = Rank(band) - 1

C9_Witness ==
    LET entropy == calculate_entropy(password)
    IN  /\ Returned_Ok
        /\ check_has_common_words(password)
        /\ entropy >= 82000000 /\ entropy < 85000000
        /\ verdict = "Medium"

\* C10: during balance_password a replacement step never removes a class from
\* the candidate: each class present before the step is present after it.
C10_ClassesNeverShrink ==
    [][(pc \in ReplaceSteps) => (Classes(password) \subseteq Classes(password'))]_vars

====
